---- MODULE Spec2Model ----
(***************************************************************************)
(* The airline demo data generators of cloudberry-demos:                   *)
(*   src/data-generator.py         the "simple" variant (CSV output)       *)
(*   src/enhanced-data-loader.py   the "enhanced" variant (SQL output)     *)
(*                                                                         *)
(* Times are minutes; day 0 is an arbitrary epoch and base_date is the     *)
(* day number date.today() returns.  A draw of Python's random module is   *)
(* a raw unit value u in 0..9999 (u/10000 in [0,1)) that the library       *)
(* function maps to its result, so every draw is an explicit input.        *)
(***************************************************************************)
EXTENDS Integers, Sequences, FiniteSets, TLC

VARIABLES
  variant,      \* "simple" (data-generator.py) or "enhanced" (enhanced-data-loader.py)
  pc,           \* position of the running program or call
  scale,        \* args.scale
  ret,          \* main()'s return value ("None" or "1"), "" before it returns
  exit_status,  \* the process's exit status, -1 while it runs
  printed,      \* the kinds of message printed so far
  files,        \* output files: name -> what was written
  base_date,    \* date.today(), a day number
  feed,         \* which contents the three reference feeds have
  hash_order,   \* the iteration order of the set self.us_airports
  airports,     \* self.airports
  airlines,     \* self.airlines
  us_airports,  \* self.us_airports
  routes,       \* self.routes
  count,        \* the count argument of the running generator
  i,            \* the loop variable of the running generator
  flights,      \* the flights list
  passengers,   \* the passengers list
  used_emails,  \* used_emails of the passenger generator
  cur,          \* the passenger under construction (names, email, counter)
  bookings,     \* the bookings list
  booking_id,   \* the next booking identifier
  pending,      \* passenger_flights still to be booked for the current passenger
  est,          \* the duration estimator's calls under test
  earlier       \* what the earlier run left, when the program is run a second time

vars == <<variant, pc, scale, ret, exit_status, printed, files, base_date, feed,
          hash_order, airports, airlines, us_airports, routes, count, i, flights,
          passengers, used_emails, cur, bookings, booking_id, pending, est, earlier>>

---------------------------------------------------------------------------
(* Bounds of the model *)

\* the largest count a generator is called with directly
MaxCount == 2
\* flights per scale unit (1000 in main, scaled down)
FlightsPerScale == 2
\* passengers per scale unit (10000 in main, scaled down)
PassengersPerScale == 2
\* generate_flights(750) in the simple main, scaled down
SimpleFlightCount == 2
\* generate_passengers(10000) in the simple main, scaled down
SimplePassengerCount == 2
\* generate_bookings(10000, flights) in the simple main, scaled down
SimpleBookingPassengers == 2
\* the most full chunks of rows handed to the chunked writer
MaxChunks == 2
\* how far around each multiple of the chunk size the row counts reach
Spread == 8

(* Program constants *)
MinScale == 1
MaxScale == 1000
MaxPhoneLen == 40
HubCeiling == 30

---------------------------------------------------------------------------
(* Python's random module: each function maps one raw draw u in 0..9999 *)

\* random.random(), in ten-thousandths
random(u) == u

\* random.randint(a, b): uniform on a..b
randint(a, b, u) == a + ((u * (b - a + 1)) \div 10000)

\* random.choice(seq); raising IndexError on an empty seq is the caller's guard
choice(seq, u) == seq[1 + ((u * Len(seq)) \div 10000)]

\* random.uniform(a, b), truncated to the unit of a and b
uniform(a, b, u) == a + ((u * (b - a)) \div 10000)

RECURSIVE SumTo(_, _)
SumTo(w, k) == IF k = 0 THEN 0 ELSE w[k] + SumTo(w, k - 1)

\* random.choices(population, weights)[0]: the first index whose cumulative
\* weight exceeds u * total
choices(population, weights, u) ==
  LET total == SumTo(weights, Len(weights))
      k == CHOOSE k \in 1..Len(weights) :
             /\ SumTo(weights, k) * 10000 > u * total
             /\ \A j \in 1..(k - 1) : SumTo(weights, j) * 10000 <= u * total
  IN population[k]

\* random.sample's selection loop over a pool of which the first m entries are
\* live: j = randbelow(m), take pool[j], move the last live entry into its place
RECURSIVE SampleFrom(_, _, _)
SampleFrom(pool, m, us) ==
  IF us = <<>> THEN <<>>
  ELSE LET j == randint(0, m - 1, Head(us))
       IN <<pool[j + 1]>> \o SampleFrom([pool EXCEPT ![j + 1] = pool[m]], m - 1, Tail(us))

\* positions drawn independently, so that one may come twice
SampleWithReplacement(n, k, us) == [j \in 1..k |-> randint(1, n, us[j])]

\* random.sample(population, k): the positions taken, in the order taken, one
\* raw draw per position
sample(n, k, us) == SampleFrom([p \in 1..n |-> p], n, us)

\* datetime.isoformat() of a time without seconds: day, hour, minute
isoformat(t) == <<t \div 1440, (t % 1440) \div 60, t % 60>>

\* datetime.fromisoformat()
fromisoformat(s) == s[1] * 1440 + s[2] * 60 + s[3]

\* datetime.datetime.combine(date, time(hour, minute))
combine(day, hour, minute) == day * 1440 + hour * 60 + minute

\* f"{n:04d}"
Pad4(n) ==
  IF n < 10 THEN "000" \o ToString(n)
  ELSE IF n < 100 THEN "00" \o ToString(n)
  ELSE IF n < 1000 THEN "0" \o ToString(n)
  ELSE ToString(n)

---------------------------------------------------------------------------
(* The duration estimators *)

\* duration_map of _estimate_flight_duration, hours as minutes
duration_map ==
  (<<"JFK", "LAX">> :> 360) @@ (<<"JFK", "SFO">> :> 390) @@ (<<"JFK", "SEA">> :> 390) @@
  (<<"JFK", "DEN">> :> 270) @@ (<<"JFK", "ORD">> :> 150) @@ (<<"JFK", "ATL">> :> 150) @@
  (<<"LAX", "SFO">> :> 90) @@ (<<"LAX", "LAS">> :> 72) @@ (<<"LAX", "PHX">> :> 90) @@
  (<<"LAX", "DEN">> :> 150) @@ (<<"LAX", "ORD">> :> 240) @@ (<<"LAX", "ATL">> :> 270) @@
  (<<"ORD", "DEN">> :> 150) @@ (<<"ORD", "ATL">> :> 120) @@ (<<"ORD", "DFW">> :> 150) @@
  (<<"ATL", "MIA">> :> 120) @@ (<<"ATL", "MCO">> :> 90) @@ (<<"ATL", "BOS">> :> 150) @@
  (<<"DFW", "LAX">> :> 180) @@ (<<"DFW", "PHX">> :> 120) @@ (<<"DFW", "DEN">> :> 90) @@
  (<<"DEN", "SFO">> :> 150) @@ (<<"DEN", "SEA">> :> 120) @@ (<<"DEN", "PHX">> :> 90) @@
  (<<"SFO", "SEA">> :> 120) @@ (<<"SFO", "LAS">> :> 90) @@ (<<"SFO", "PHX">> :> 120) @@
  (<<"SEA", "LAX">> :> 150) @@ (<<"SEA", "DEN">> :> 120) @@ (<<"SEA", "SFO">> :> 120) @@
  (<<"BOS", "JFK">> :> 72) @@ (<<"BOS", "ATL">> :> 150) @@ (<<"BOS", "ORD">> :> 180) @@
  (<<"MIA", "JFK">> :> 180) @@ (<<"MIA", "ATL">> :> 120) @@ (<<"MIA", "MCO">> :> 60)

\* a lookup that forgets the reverse direction
EstimateOneWay(origin, dest, u) ==
  LET key == <<origin, dest>>
  IN IF key \in DOMAIN duration_map THEN duration_map[key]
     ELSE uniform(90, 330, u)

\* _estimate_flight_duration(origin, dest), in minutes; u is the draw of
\* random.uniform(1.5, 5.5), used only for an unknown pair
estimate_flight_duration(origin, dest, u) ==
  LET key == <<origin, dest>>
      reverse_key == <<dest, origin>>
  IN IF key \in DOMAIN duration_map THEN duration_map[key]
     ELSE IF reverse_key \in DOMAIN duration_map THEN duration_map[reverse_key]
     ELSE uniform(90, 330, u)

\* distance_factors of calculate_flight_duration, in hours
distance_factors ==
  (<<"JFK", "LAX">> :> 6) @@ (<<"JFK", "SFO">> :> 6) @@ (<<"JFK", "SEA">> :> 6) @@
  (<<"JFK", "DEN">> :> 4) @@ (<<"JFK", "ORD">> :> 2) @@ (<<"JFK", "ATL">> :> 2) @@
  (<<"LAX", "SFO">> :> 1) @@ (<<"LAX", "LAS">> :> 1) @@ (<<"LAX", "PHX">> :> 2) @@
  (<<"ORD", "DEN">> :> 2) @@ (<<"ORD", "ATL">> :> 2) @@ (<<"ORD", "DFW">> :> 2) @@
  (<<"ATL", "MIA">> :> 2) @@ (<<"ATL", "MCO">> :> 1) @@ (<<"DFW", "LAX">> :> 3) @@
  (<<"DEN", "SFO">> :> 2) @@ (<<"DEN", "SEA">> :> 2) @@ (<<"SEA", "SFO">> :> 2) @@
  (<<"BOS", "JFK">> :> 1) @@ (<<"IAD", "ATL">> :> 2) @@ (<<"PHL", "ORD">> :> 2)

\* calculate_flight_duration(origin, destination), in hours; u is the draw of
\* random.randint(1, 5), used only for an unknown pair
calculate_flight_duration(origin, destination, u) ==
  IF origin = destination THEN 0
  ELSE LET key == <<origin, destination>>
           reverse_key == <<destination, origin>>
       IN IF key \in DOMAIN distance_factors THEN distance_factors[key]
          ELSE IF reverse_key \in DOMAIN distance_factors THEN distance_factors[reverse_key]
          ELSE randint(1, 5, u)

---------------------------------------------------------------------------
(* The reference catalog of the enhanced loader *)

\* a field of a feed line: its text, and whether it stands in double quotes
Q(s) == [q |-> TRUE, s |-> s]
B(s) == [q |-> FALSE, s |-> s]
\* the feeds' null marker, \N
NULL == B("\\N")

\* str.strip('"')
strip(f) == f.s

\* float() of the numerals the feeds hold, in ten-thousandths; the others
\* raise ValueError
FloatValue ==
  ("40.6398" :> 406398) @@ ("-73.7789" :> -737789) @@ ("33.9425" :> 339425) @@
  ("-118.408" :> -1184080) @@ ("25.7932" :> 257932) @@ ("-80.2906" :> -802906) @@
  ("28.4294" :> 284294) @@ ("-81.309" :> -813090) @@ ("43.6772" :> 436772) @@
  ("-79.6306" :> -796306) @@ ("36.2819" :> 362819)

\* safe_float_parse(value)
safe_float_parse(value) ==
  IF value = NULL \/ value.s = "" THEN 0
  ELSE IF strip(value) \in DOMAIN FloatValue THEN FloatValue[strip(value)]
  ELSE 0

\* airports.dat: ID,Name,City,Country,IATA,ICAO,Lat,Lon
FeedAirports ==
  << <<B("3797"), Q("John F Kennedy Intl"), Q("New York"), Q("United States"),
       Q("JFK"), Q("KJFK"), B("40.6398"), B("-73.7789")>>,
     <<B("3484"), Q("Los Angeles Intl"), Q("Los Angeles"), Q("United States"),
       Q("LAX"), Q("KLAX"), B("33.9425"), B("-118.408")>>,
     <<B("3576"), Q("Miami Intl"), Q("Miami"), Q("United States"),
       Q("MIA"), Q("KMIA"), B("25.7932"), B("-80.2906")>>,
     <<B("3878"), Q("Orlando Intl"), Q("Orlando"), Q("United States"),
       Q("MCO"), Q("KMCO"), B("28.4294"), B("-81.309")>>,
     <<B("193"), Q("Lester B Pearson Intl"), Q("Toronto"), Q("Canada"),
       Q("YYZ"), Q("CYYZ"), B("43.6772"), B("-79.6306")>>,
     <<B("7000"), Q("Private Strip"), Q("Nowhere"), Q("United States"),
       NULL, Q("KXXX"), B("36.2819"), NULL>>,
     <<B("7001"), Q("Cut Short"), Q("Nowhere"), Q("United States"), Q("CUT")>>,
     <<B("4356"), Q("Northwest Arkansas Regional"), Q("Bentonville"), Q("United States"),
       Q("XNA"), Q("KXNA"), Q("n/a"), NULL>> >>

\* airlines.dat: ID,Name,Alias,IATA,ICAO,Callsign,Country,Active
FeedAirlines ==
  << <<B("24"), Q("American Airlines"), NULL, Q("AA"), Q("AAL"), Q("AMERICAN"),
       Q("United States"), Q("Y")>>,
     <<B("2009"), Q("Delta Air Lines"), NULL, Q("DL"), Q("DAL"), Q("DELTA"),
       Q("United States"), Q("Y")>>,
     <<B("1"), Q("Private flight"), NULL, NULL, NULL, NULL, NULL, Q("Y")>>,
     <<B("9999"), Q("No Country Air"), NULL, Q("ZZ")>> >>

\* a routes.dat line: Airline,AirlineID,Source,SourceID,Dest,DestID,Codeshare,Stops,Equipment
RouteLine(airline, origin, dest) ==
  <<B(airline), B("1"), B(origin), B("2"), B(dest), B("3"), B(""), B("0"), B("738")>>

\* routes.dat with usable routes: a known pair, its reverse, the shortest known
\* pair, two unknown pairs, and lines the filter drops
FeedRoutes ==
  << RouteLine("AA", "JFK", "LAX"), RouteLine("DL", "LAX", "JFK"),
     RouteLine("AA", "MIA", "MCO"), RouteLine("UA", "JFK", "MCO"),
     RouteLine("AA", "JFK", "JFK"), RouteLine("AC", "JFK", "YYZ"),
     RouteLine("ZZ", "JFK", "LAX"), <<B("AA"), B("1"), B("JFK"), B("2"), B("LAX"), B("3")>>,
     RouteLine("WN", "XNA", "JFK") >>

\* routes.dat with no usable route
FeedRoutesNoneUsable ==
  << RouteLine("AC", "JFK", "YYZ"), RouteLine("AC", "YYZ", "JFK") >>

\* the feed contents a run may meet, by name
Feeds == {"usable_routes", "no_usable_route"}
FeedOf(name) ==
  [airports |-> FeedAirports, airlines |-> FeedAirlines,
   routes |-> IF name = "usable_routes" THEN FeedRoutes ELSE FeedRoutesNoneUsable]

\* the empty dict
EmptyDict == [x \in {} |-> x]

\* d[k] = v
DictSet(d, k, v) == (k :> v) @@ d

\* the airports loop of download_openflights_data over the first n lines,
\* updating self.airports and self.us_airports in place
RECURSIVE ParseAirports(_, _, _, _)
ParseAirports(lines, n, a0, us0) ==
  IF n = 0 THEN [airports |-> a0, us_airports |-> us0]
  ELSE LET prev == ParseAirports(lines, n - 1, a0, us0)
           fields == lines[n]
       IN IF Len(fields) >= 8 /\ fields[5] # NULL
          THEN LET iata == strip(fields[5])
                   country == strip(fields[4])
                   rec == [name |-> strip(fields[2]), city |-> strip(fields[3]),
                           country |-> country,
                           lat |-> safe_float_parse(fields[7]),
                           lon |-> safe_float_parse(fields[8])]
               IN [airports |-> DictSet(prev.airports, iata, rec),
                   us_airports |-> IF country = "United States"
                                   THEN prev.us_airports \cup {iata}
                                   ELSE prev.us_airports]
          ELSE prev

\* the airlines loop over the first n lines, updating self.airlines in place
RECURSIVE ParseAirlines(_, _, _)
ParseAirlines(lines, n, a0) ==
  IF n = 0 THEN a0
  ELSE LET prev == ParseAirlines(lines, n - 1, a0)
           fields == lines[n]
       IN IF Len(fields) >= 4 /\ fields[4] # NULL
          THEN DictSet(prev, strip(fields[4]),
                       [name |-> strip(fields[2]),
                        country |-> IF Len(fields) > 6 THEN strip(fields[7]) ELSE "Unknown"])
          ELSE prev

\* the carriers the routes filter keeps
MajorAirlines == {"AA", "DL", "UA", "WN", "AS", "B6", "NK", "F9"}

\* a routes filter without the origin != dest test
RouteKeptNoSelfTest(airline_iata, origin, dest, us) ==
  origin \in us /\ dest \in us /\ airline_iata \in MajorAirlines

\* the filter of the routes loop
RouteKept(airline_iata, origin, dest, us) ==
  /\ origin \in us
  /\ dest \in us
  /\ origin # dest
  /\ airline_iata \in MajorAirlines

\* the routes loop over the first n lines: the local list us_routes
RECURSIVE ParseRoutes(_, _, _)
ParseRoutes(lines, n, us) ==
  IF n = 0 THEN <<>>
  ELSE LET prev == ParseRoutes(lines, n - 1, us)
           fields == lines[n]
       IN IF Len(fields) >= 7
             /\ RouteKept(strip(fields[1]), strip(fields[3]), strip(fields[5]), us)
          THEN Append(prev, [airline |-> strip(fields[1]), origin |-> strip(fields[3]),
                             destination |-> strip(fields[5])])
          ELSE prev

\* fallback_airports, in the dict's order
FallbackCodes ==
  <<"JFK", "LAX", "ORD", "ATL", "DFW", "DEN", "SFO", "SEA", "LAS", "PHX",
    "IAH", "MCO", "MIA", "BOS", "EWR">>

FallbackNames ==
  <<"John F Kennedy Intl", "Los Angeles Intl", "Chicago OHare Intl",
    "Hartsfield Jackson Atlanta Intl", "Dallas Fort Worth Intl", "Denver Intl",
    "San Francisco Intl", "Seattle Tacoma Intl", "McCarran Intl",
    "Phoenix Sky Harbor Intl", "George Bush Intercontinental", "Orlando Intl",
    "Miami Intl", "Logan Intl", "Newark Liberty Intl">>

FallbackCities ==
  <<"New York", "Los Angeles", "Chicago", "Atlanta", "Dallas", "Denver",
    "San Francisco", "Seattle", "Las Vegas", "Phoenix", "Houston", "Orlando",
    "Miami", "Boston", "Newark">>

Range(seq) == {seq[k] : k \in 1..Len(seq)}

IndexOf(seq, x) == CHOOSE k \in 1..Len(seq) : seq[k] = x

fallback_airports ==
  [c \in Range(FallbackCodes) |->
     [name |-> FallbackNames[IndexOf(FallbackCodes, c)],
      city |-> FallbackCities[IndexOf(FallbackCodes, c)],
      country |-> "United States"]]

Reverse(seq) == [k \in 1..Len(seq) |-> seq[Len(seq) + 1 - k]]

\* list(self.us_airports): a set's iteration order is the interpreter's choice
\* (string hashing), fixed for the process
HashOrders == {"insertion", "reversed"}
SetList(order) == IF order = "insertion" THEN FallbackCodes ELSE Reverse(FallbackCodes)

\* the carriers of the fallback routes
FallbackAirlines == <<"AA", "DL", "UA", "WN", "AS", "B6">>

\* the raw draws of one seeded stretch of the generator: its k-th value
Tape(seed, k) == (seed + k * 3571) % 10000
Seeds == {0, 1234}

\* the nested loop of _load_fallback_data: a route for every ordered pair of
\* different airports, origin-major, each with a drawn carrier
FallbackRoutes(airports_list, seed) ==
  LET n == Len(airports_list)
      appended ==
        [k \in 1..(n * (n - 1)) |->
           LET oi == ((k - 1) \div (n - 1)) + 1
               r == ((k - 1) % (n - 1)) + 1
               di == IF r < oi THEN r ELSE r + 1
           IN [airline |-> choice(FallbackAirlines, Tape(seed, k)),
               origin |-> airports_list[oi],
               destination |-> airports_list[di]]]
  IN SubSeq(appended, 1, n * (n - 1))

---------------------------------------------------------------------------
(* Names and airports *)

\* FIRST_NAMES of data-generator.py
FIRST_NAMES ==
  <<
    "John", "Jane", "Michael", "Sarah", "David", "Lisa", "Robert", "Emily",
    "James", "Jessica", "William", "Ashley", "Christopher", "Amanda", "Daniel", "Melissa",
    "Matthew", "Deborah", "Anthony", "Dorothy", "Mark", "Amy", "Donald", "Angela",
    "Steven", "Helen", "Paul", "Brenda", "Andrew", "Emma", "Joshua", "Olivia",
    "Kenneth", "Cynthia", "Kevin", "Marie", "Brian", "Janet", "George", "Catherine",
    "Timothy", "Frances", "Ronald", "Christine", "Jason", "Samantha", "Edward", "Debra",
    "Jeffrey", "Rachel"
  >>

\* LAST_NAMES of data-generator.py
LAST_NAMES ==
  <<
    "Smith", "Johnson", "Williams", "Brown", "Jones", "Garcia", "Miller", "Davis",
    "Rodriguez", "Martinez", "Hernandez", "Lopez", "Gonzalez", "Wilson", "Anderson", "Thomas",
    "Taylor", "Moore", "Jackson", "Martin", "Lee", "Perez", "Thompson", "White",
    "Harris", "Sanchez", "Clark", "Ramirez", "Lewis", "Robinson", "Walker", "Young",
    "Allen", "King", "Wright", "Scott", "Torres", "Nguyen", "Hill", "Flores",
    "Green", "Adams", "Nelson", "Baker", "Hall", "Rivera", "Campbell", "Mitchell",
    "Carter", "Roberts"
  >>

\* list(AIRPORTS.keys()) of data-generator.py, in the dict's order
AIRPORTS ==
  <<
    "JFK", "LAX", "ORD", "DFW", "DEN", "ATL", "SFO", "SEA", "LAS", "MCO",
    "EWR", "CLT", "PHX", "IAH", "MIA", "BOS", "MSP", "DTW", "PHL", "LGA",
    "FLL", "BWI", "IAD", "MDW", "TPA", "SAN", "HNL", "PDX", "STL", "AUS"
  >>

\* names fake.first_name() and fake.last_name() may return
FakerFirstNames == {"John", "Ann"}
FakerLastNames == {"Smith", "McDonald", "Mcdonald"}

\* str.lower() on the names above
LowerTable ==
  ("John" :> "john") @@ ("Jane" :> "jane") @@ ("Michael" :> "michael") @@ ("Sarah" :> "sarah") @@
  ("David" :> "david") @@ ("Lisa" :> "lisa") @@ ("Robert" :> "robert") @@ ("Emily" :> "emily") @@
  ("James" :> "james") @@ ("Jessica" :> "jessica") @@ ("William" :> "william") @@ ("Ashley" :> "ashley") @@
  ("Christopher" :> "christopher") @@ ("Amanda" :> "amanda") @@ ("Daniel" :> "daniel") @@ ("Melissa" :> "melissa") @@
  ("Matthew" :> "matthew") @@ ("Deborah" :> "deborah") @@ ("Anthony" :> "anthony") @@ ("Dorothy" :> "dorothy") @@
  ("Mark" :> "mark") @@ ("Amy" :> "amy") @@ ("Donald" :> "donald") @@ ("Angela" :> "angela") @@
  ("Steven" :> "steven") @@ ("Helen" :> "helen") @@ ("Paul" :> "paul") @@ ("Brenda" :> "brenda") @@
  ("Andrew" :> "andrew") @@ ("Emma" :> "emma") @@ ("Joshua" :> "joshua") @@ ("Olivia" :> "olivia") @@
  ("Kenneth" :> "kenneth") @@ ("Cynthia" :> "cynthia") @@ ("Kevin" :> "kevin") @@ ("Marie" :> "marie") @@
  ("Brian" :> "brian") @@ ("Janet" :> "janet") @@ ("George" :> "george") @@ ("Catherine" :> "catherine") @@
  ("Timothy" :> "timothy") @@ ("Frances" :> "frances") @@ ("Ronald" :> "ronald") @@ ("Christine" :> "christine") @@
  ("Jason" :> "jason") @@ ("Samantha" :> "samantha") @@ ("Edward" :> "edward") @@ ("Debra" :> "debra") @@
  ("Jeffrey" :> "jeffrey") @@ ("Rachel" :> "rachel") @@ ("Smith" :> "smith") @@ ("Johnson" :> "johnson") @@
  ("Williams" :> "williams") @@ ("Brown" :> "brown") @@ ("Jones" :> "jones") @@ ("Garcia" :> "garcia") @@
  ("Miller" :> "miller") @@ ("Davis" :> "davis") @@ ("Rodriguez" :> "rodriguez") @@ ("Martinez" :> "martinez") @@
  ("Hernandez" :> "hernandez") @@ ("Lopez" :> "lopez") @@ ("Gonzalez" :> "gonzalez") @@ ("Wilson" :> "wilson") @@
  ("Anderson" :> "anderson") @@ ("Thomas" :> "thomas") @@ ("Taylor" :> "taylor") @@ ("Moore" :> "moore") @@
  ("Jackson" :> "jackson") @@ ("Martin" :> "martin") @@ ("Lee" :> "lee") @@ ("Perez" :> "perez") @@
  ("Thompson" :> "thompson") @@ ("White" :> "white") @@ ("Harris" :> "harris") @@ ("Sanchez" :> "sanchez") @@
  ("Clark" :> "clark") @@ ("Ramirez" :> "ramirez") @@ ("Lewis" :> "lewis") @@ ("Robinson" :> "robinson") @@
  ("Walker" :> "walker") @@ ("Young" :> "young") @@ ("Allen" :> "allen") @@ ("King" :> "king") @@
  ("Wright" :> "wright") @@ ("Scott" :> "scott") @@ ("Torres" :> "torres") @@ ("Nguyen" :> "nguyen") @@
  ("Hill" :> "hill") @@ ("Flores" :> "flores") @@ ("Green" :> "green") @@ ("Adams" :> "adams") @@
  ("Nelson" :> "nelson") @@ ("Baker" :> "baker") @@ ("Hall" :> "hall") @@ ("Rivera" :> "rivera") @@
  ("Campbell" :> "campbell") @@ ("Mitchell" :> "mitchell") @@ ("Carter" :> "carter") @@ ("Roberts" :> "roberts") @@
  ("Ann" :> "ann") @@ ("McDonald" :> "mcdonald") @@ ("Mcdonald" :> "mcdonald")

lower(s) == LowerTable[s]

---------------------------------------------------------------------------
(* Initial states *)

\* date.today() of the run
Dates == {20000}

\* the --scale values tried: below the range, in it, above it
ScaleArgs == {MinScale - 1, MinScale, MaxScale + 1}

NoPassenger == [first_name |-> "", last_name |-> "", email_base |-> "", email |-> "",
                counter |-> 0]

\* no earlier run
NoRun == [done |-> FALSE, passengers |-> <<>>, flights |-> <<>>, bookings |-> <<>>,
          files |-> EmptyDict, printed |-> {}, airlines |-> EmptyDict, carriers |-> <<>>]

\* AirlineDataLoader.__init__ and the locals of a run before it starts
Fresh ==
  /\ ret = ""
  /\ exit_status = -1
  /\ printed = {}
  /\ files = EmptyDict
  /\ airports = EmptyDict
  /\ airlines = EmptyDict
  /\ us_airports = {}
  /\ routes = <<>>
  /\ count = 0
  /\ i = 0
  /\ flights = <<>>
  /\ passengers = <<>>
  /\ used_emails = {}
  /\ cur = NoPassenger
  /\ bookings = <<>>
  /\ booking_id = 1
  /\ pending = <<>>
  /\ est = <<>>

\* the environment of an enhanced run: the feeds and the set order
EnhancedEnv == feed \in Feeds /\ hash_order \in HashOrders
\* the simple variant reads neither
NoEnv == feed = "none" /\ hash_order = "insertion"

---------------------------------------------------------------------------
(* download_openflights_data and _load_fallback_data *)

\* lines 58-100: fetch and parse airports.dat: the feed is parsed; or the fetch
\* raises; or an exception half way through the lines leaves what was parsed so
\* far. Either exception enters the except clause
DownloadAirports ==
  /\ pc = "dl_airports"
  /\ \/ /\ LET p == ParseAirports(FeedOf(feed).airports, Len(FeedOf(feed).airports), airports, us_airports)
           IN airports' = p.airports /\ us_airports' = p.us_airports
        /\ pc' = "dl_airlines"
     \/ /\ UNCHANGED <<airports, us_airports>>
        /\ pc' = "dl_except"
     \/ /\ LET p == ParseAirports(FeedOf(feed).airports, Len(FeedOf(feed).airports) \div 2,
                                    airports, us_airports)
           IN airports' = p.airports /\ us_airports' = p.us_airports
        /\ pc' = "dl_except"
  /\ UNCHANGED <<variant, scale, ret, exit_status, printed, files, base_date, feed,
                 hash_order, airlines, routes, count, i, flights, passengers,
                 used_emails, cur, bookings, booking_id, pending, est, earlier>>

\* lines 102-121: fetch and parse airlines.dat
DownloadAirlines ==
  /\ pc = "dl_airlines"
  /\ \/ /\ airlines' = ParseAirlines(FeedOf(feed).airlines, Len(FeedOf(feed).airlines), airlines)
        /\ pc' = "dl_routes"
     \/ /\ UNCHANGED airlines
        /\ pc' = "dl_except"
     \/ /\ airlines' = ParseAirlines(FeedOf(feed).airlines, Len(FeedOf(feed).airlines) \div 2,
                                     airlines)
        /\ pc' = "dl_except"
  /\ UNCHANGED <<variant, scale, ret, exit_status, printed, files, base_date, feed,
                 hash_order, airports, us_airports, routes, count, i, flights,
                 passengers, used_emails, cur, bookings, booking_id, pending, est, earlier>>

\* lines 123-148: fetch and parse routes.dat; self.routes is assigned only
\* after the whole feed is parsed, so an exception at any point leaves it as
\* it was
DownloadRoutes ==
  /\ pc = "dl_routes"
  /\ \/ /\ routes' = ParseRoutes(FeedOf(feed).routes, Len(FeedOf(feed).routes), us_airports)
        /\ pc' = "downloaded"
     \/ /\ UNCHANGED routes
        /\ pc' = "dl_except"
  /\ UNCHANGED <<variant, scale, ret, exit_status, printed, files, base_date, feed,
                 hash_order, airports, airlines, us_airports, count, i, flights,
                 passengers, used_emails, cur, bookings, booking_id, pending, est, earlier>>

\* a fallback that keeps the routes parsed so far
LoadFallbackKeepRoutes ==
  /\ pc = "dl_except"
  /\ printed' = printed \cup {"download_error", "fallback"}
  /\ airports' = fallback_airports
  /\ us_airports' = DOMAIN fallback_airports
  /\ UNCHANGED routes
  /\ pc' = "downloaded"
  /\ UNCHANGED <<variant, scale, ret, exit_status, files, base_date, feed, hash_order,
                 airlines, count, i, flights, passengers, used_emails, cur, bookings,
                 booking_id, pending, est, earlier>>

\* lines 150-153 and _load_fallback_data (155-192): the except clause replaces
\* airports, us_airports and routes by the built-in catalog
LoadFallback ==
  /\ pc = "dl_except"
  /\ printed' = printed \cup {"download_error", "fallback"}
  /\ airports' = fallback_airports
  /\ us_airports' = DOMAIN fallback_airports
  /\ \E seed \in Seeds : routes' = FallbackRoutes(SetList(hash_order), seed)
  /\ pc' = "downloaded"
  /\ UNCHANGED <<variant, scale, ret, exit_status, files, base_date, feed, hash_order,
                 airlines, count, i, flights, passengers, used_emails, cur, bookings,
                 booking_id, pending, est, earlier>>

---------------------------------------------------------------------------
(* The flight generators *)

\* hub_weights, in tenths
hub_weights ==
  ("ATL" :> 30) @@ ("ORD" :> 28) @@ ("LAX" :> 25) @@ ("DFW" :> 23) @@ ("DEN" :> 20) @@
  ("JFK" :> 22) @@ ("SFO" :> 18) @@ ("SEA" :> 15) @@ ("LAS" :> 17) @@ ("PHX" :> 14) @@
  ("IAH" :> 16) @@ ("MCO" :> 13) @@ ("MIA" :> 12) @@ ("BOS" :> 14) @@ ("EWR" :> 13)

\* hub_weights.get(code, 1.0)
HubWeight(code) == IF code \in DOMAIN hub_weights THEN hub_weights[code] ELSE 10

\* line 219: random.random() > combined_weight / 3.0, with
\* combined_weight = (origin_weight + dest_weight) / 2
Skipped(origin, dest, u) ==
  random(u) * 2 * HubCeiling > (HubWeight(origin) + HubWeight(dest)) * 10000

\* hour_weights, in tenths, and range(24)
hour_weights ==
  [h \in 1..24 |-> IF h <= 6 THEN 1 ELSE IF h <= 10 THEN 8 ELSE IF h <= 18 THEN 10
                   ELSE IF h <= 22 THEN 9 ELSE 3]
Hours == [h \in 1..24 |-> h - 1]

Minutes == <<0, 15, 30, 45>>

\* a padding taken as hours
ArrivalPaddingAsHours(departure_time, duration, uj) ==
  departure_time + duration + 60 * randint(-15, 45, uj)

\* lines 242-245: departure + timedelta(hours=duration_hours, minutes=randint(-15, 45))
EnhancedArrival(departure_time, duration, uj) ==
  departure_time + duration + randint(-15, 45, uj)

\* an identifier that counts the accepted flights only
FlightIdCountingAccepted(iter, accepted) == accepted + 1

\* line 248: 'flight_id': i + 1, i the loop variable; accepted = len(flights)
EnhancedFlightId(iter, accepted) == iter + 1

\* lines 222-255: the flight built from an accepted route
EnhancedFlight(iter, accepted, route, today, un, ud, uh, um, ue, uj) ==
  LET departure_time ==
        combine(today + randint(0, 30, ud), choices(Hours, hour_weights, uh),
                choice(Minutes, um))
      duration == estimate_flight_duration(route.origin, route.destination, ue)
  IN [flight_id |-> EnhancedFlightId(iter, accepted),
      flight_number |-> route.airline \o Pad4(randint(1, 9999, un)),
      airline |-> route.airline,
      origin |-> route.origin,
      destination |-> route.destination,
      departure_time |-> departure_time,
      arrival_time |-> EnhancedArrival(departure_time, duration, uj)]

\* one iteration of the loop of generate_realistic_flights (206-255) on a
\* non-empty route list: the route is skipped (continue) or a flight is appended
EnhancedFlightIter(d) ==
  /\ pc = "flights_loop"
  /\ variant = "enhanced"
  /\ i < count
  /\ routes # <<>>
  /\ \E ur \in d.route, ua \in d.accept :
       LET route == choice(routes, ur)
       IN \/ /\ Skipped(route.origin, route.destination, ua)
             /\ UNCHANGED flights
          \/ /\ ~Skipped(route.origin, route.destination, ua)
             /\ \E un \in d.num, ud \in d.days, uh \in d.hour, um \in d.minute,
                   ue \in d.est, uj \in d.jitter :
                  flights' = Append(flights,
                     EnhancedFlight(i, Len(flights), route, base_date,
                                    un, ud, uh, um, ue, uj))
  /\ i' = i + 1
  /\ UNCHANGED <<variant, pc, scale, ret, exit_status, printed, files, base_date, feed,
                 hash_order, airports, airlines, us_airports, routes, count,
                 passengers, used_emails, cur, bookings, booking_id, pending, est, earlier>>

\* line 208 on an empty route list: random.choice raises IndexError
EnhancedFlightRaise ==
  /\ pc = "flights_loop"
  /\ variant = "enhanced"
  /\ i < count
  /\ routes = <<>>
  /\ pc' = "raised"
  /\ UNCHANGED <<variant, scale, ret, exit_status, printed, files, base_date, feed,
                 hash_order, airports, airlines, us_airports, routes, count, i, flights,
                 passengers, used_emails, cur, bookings, booking_id, pending, est, earlier>>

Min(a, b) == IF a < b THEN a ELSE b

\* seq[:n]
Prefix(seq, n) == SubSeq(seq, 1, Min(n, Len(seq)))

\* the airline codes of generate_flights
SimpleAirlineCodes == <<"AA", "DL", "UA", "SW", "AS", "B6">>

\* [a for a in airports if a != origin]
RECURSIVE Without(_, _)
Without(seq, x) ==
  IF seq = <<>> THEN <<>>
  ELSE IF Head(seq) = x THEN Without(Tail(seq), x)
  ELSE <<Head(seq)>> \o Without(Tail(seq), x)

\* line 144: random.choice([a for a in airports if a != origin])
SimpleDestination(origin, u) == choice(Without(AIRPORTS, origin), u)

\* lines 143-163: the flight tuple of one iteration
SimpleFlight(id, today, uo, udst, uc, un, ud, uh, um, ue, uj) ==
  LET origin == choice(AIRPORTS, uo)
      destination == SimpleDestination(origin, udst)
      departure_time ==
        combine(today + randint(0, 30, ud), randint(6, 22, uh), choice(Minutes, um))
      flight_duration == calculate_flight_duration(origin, destination, ue)
      arrival_time == departure_time + flight_duration * 60 + randint(0, 30, uj)
  IN <<id, choice(SimpleAirlineCodes, uc) \o ToString(randint(1000, 9999, un)),
       origin, destination, isoformat(departure_time), isoformat(arrival_time)>>

\* one iteration of the loop of generate_flights (141-163)
SimpleFlightIter(d) ==
  /\ pc = "flights_loop"
  /\ variant = "simple"
  /\ i < count
  /\ \E uo \in d.origin, udst \in d.dest, uc \in d.code, un \in d.num, ud \in d.days,
        uh \in d.hour, um \in d.minute, ue \in d.est, uj \in d.jitter :
       flights' = Append(flights,
          SimpleFlight(i + 1, base_date, uo, udst, uc, un, ud, uh, um, ue, uj))
  /\ i' = i + 1
  /\ UNCHANGED <<variant, pc, scale, ret, exit_status, printed, files, base_date, feed,
                 hash_order, airports, airlines, us_airports, routes, count,
                 passengers, used_emails, cur, bookings, booking_id, pending, est, earlier>>

\* the loop is over: return flights[:count] (257), return flights (165)
FlightsReturn ==
  /\ pc = "flights_loop"
  /\ i = count
  /\ flights' = IF variant = "enhanced" THEN Prefix(flights, count) ELSE flights
  /\ pc' = "flights_done"
  /\ UNCHANGED <<variant, scale, ret, exit_status, printed, files, base_date, feed,
                 hash_order, airports, airlines, us_airports, routes, count, i,
                 passengers, used_emails, cur, bookings, booking_id, pending, est, earlier>>

\* the draws tried for a flight under test
FlightDraws ==
  [route |-> {0, 2000, 4000, 6000}, origin |-> {0, 400}, dest |-> {0, 9999},
   accept |-> {0, 9999}, code |-> {0}, num |-> {0}, days |-> {9999}, hour |-> {5000},
   minute |-> {0}, est |-> {0, 9999}, jitter |-> {0, 9999}]

\* a caller loads the catalog and calls the flight generator with a count
CallFlights ==
  /\ pc \in {"downloaded", "call"}
  /\ \E c \in 0..MaxCount : count' = c
  /\ i' = 0
  /\ flights' = <<>>
  /\ pc' = "flights_loop"
  /\ UNCHANGED <<variant, scale, ret, exit_status, printed, files, base_date, feed,
                 hash_order, airports, airlines, us_airports, routes,
                 passengers, used_emails, cur, bookings, booking_id, pending, est, earlier>>

InitFlights ==
  /\ variant \in {"simple", "enhanced"}
  /\ pc = IF variant = "enhanced" THEN "dl_airports" ELSE "call"
  /\ scale = 0
  /\ IF variant = "enhanced" THEN EnhancedEnv ELSE NoEnv
  /\ base_date \in Dates
  /\ Fresh
  /\ earlier = NoRun

NextFlights ==
  \/ DownloadAirports
  \/ DownloadAirlines
  \/ DownloadRoutes
  \/ LoadFallback
  \/ CallFlights
  \/ EnhancedFlightIter(FlightDraws)
  \/ EnhancedFlightRaise
  \/ SimpleFlightIter(FlightDraws)
  \/ FlightsReturn

SpecFlights == InitFlights /\ [][NextFlights]_vars

---------------------------------------------------------------------------
(* Reading a flight of either variant *)

FlightIdOf(f) == IF variant = "simple" THEN f[1] ELSE f.flight_id
OriginOf(f) == IF variant = "simple" THEN f[3] ELSE f.origin
DestinationOf(f) == IF variant = "simple" THEN f[4] ELSE f.destination
DepartureOf(f) == IF variant = "simple" THEN fromisoformat(f[5]) ELSE f.departure_time
ArrivalOf(f) == IF variant = "simple" THEN fromisoformat(f[6]) ELSE f.arrival_time

---------------------------------------------------------------------------
(* Flight generator claims *)

\* C1: the flight generator returns exactly count flights, whatever the
\* rejection step discards
C1_ExactCount == pc = "flights_done" => Len(flights) = count

\* C2: the returned flights carry the identifiers 1, 2, 3, ... in order, with
\* no gap, however many candidates were discarded
C2_ConsecutiveIds ==
  pc = "flights_done" => \A k \in 1..Len(flights) : FlightIdOf(flights[k]) = k

\* C3: every generated flight, of either variant, arrives strictly later than
\* it departs
C3_ArrivalAfterDeparture ==
  \A k \in 1..Len(flights) : ArrivalOf(flights[k]) > DepartureOf(flights[k])

\* the shortest known pair with the most negative padding: 60 - 15 minutes
C3_Witness ==
  /\ variant = "enhanced"
  /\ pc = "flights_done"
  /\ \E k \in 1..Len(flights) :
       /\ flights[k].origin = "MIA" /\ flights[k].destination = "MCO"
       /\ flights[k].arrival_time = flights[k].departure_time + 45

---------------------------------------------------------------------------
(* The passenger generators *)

\* domains fake.free_email_domain() may return
FakerDomains == {"gmail.com", "yahoo.com"}

\* strings fake.phone_number() may return: a usual one and an oversized one
FakerPhones == {"555-0100", "+1-555-555-0100 extension 1234567890123456"}

\* a test that never sees a used address
EmailTakenNever(email, used) == FALSE

\* the loop condition of lines 304 and 124: email in used_emails
EmailTaken(email, used) == email \in used

\* lines 301-302: the first candidate address
EnhancedEmailBase(first_name, last_name) == lower(first_name) \o "." \o lower(last_name)
EnhancedEmail(email_base, domain) == email_base \o "@" \o domain

\* a retry candidate that leaves the counter out
RetryEmailWithoutCounter(email_base, counter, domain) == email_base \o "@" \o domain

\* line 305: the candidate of a retry
EnhancedRetryEmail(email_base, counter, domain) ==
  email_base \o ToString(counter) \o "@" \o domain

\* lines 310-313: the phone, replaced when longer than 40 characters
EnhancedPhone(phone, u1, u2, u3) ==
  IF Len(phone) > MaxPhoneLen
  THEN "+1-" \o ToString(randint(200, 999, u1)) \o "-" \o ToString(randint(200, 999, u2))
       \o "-" \o ToString(randint(1000, 9999, u3))
  ELSE phone

\* lines 295-303: an iteration of generate_synthetic_passengers starts: the
\* names and the first candidate address
EnhancedPassengerBegin(d) ==
  /\ pc = "passengers_loop"
  /\ variant = "enhanced"
  /\ i < count
  /\ \E first_name \in d.first, last_name \in d.last, domain \in d.domain :
       cur' = [first_name |-> first_name, last_name |-> last_name,
               email_base |-> EnhancedEmailBase(first_name, last_name),
               email |-> EnhancedEmail(EnhancedEmailBase(first_name, last_name), domain),
               counter |-> 1]
  /\ pc' = "email_loop"
  /\ UNCHANGED <<variant, scale, ret, exit_status, printed, files, base_date, feed,
                 hash_order, airports, airlines, us_airports, routes, count, i, flights,
                 passengers, used_emails, bookings, booking_id, pending, est, earlier>>

\* lines 304-306: one turn of the while loop
EnhancedEmailRetry(d) ==
  /\ pc = "email_loop"
  /\ EmailTaken(cur.email, used_emails)
  /\ \E domain \in d.domain :
       cur' = [cur EXCEPT !.email = EnhancedRetryEmail(cur.email_base, cur.counter, domain),
                          !.counter = cur.counter + 1]
  /\ UNCHANGED <<variant, pc, scale, ret, exit_status, printed, files, base_date, feed,
                 hash_order, airports, airlines, us_airports, routes, count, i, flights,
                 passengers, used_emails, bookings, booking_id, pending, est, earlier>>

\* lines 307-321: the address is new: record it and append the passenger
EnhancedPassengerFinish(d) ==
  /\ pc = "email_loop"
  /\ ~EmailTaken(cur.email, used_emails)
  /\ used_emails' = used_emails \cup {cur.email}
  /\ \E phone \in d.phone, u1 \in d.digits, u2 \in d.digits, u3 \in d.digits :
       passengers' = Append(passengers,
          [passenger_id |-> i + 1, first_name |-> cur.first_name,
           last_name |-> cur.last_name, email |-> cur.email,
           phone |-> EnhancedPhone(phone, u1, u2, u3)])
  /\ i' = i + 1
  /\ pc' = "passengers_loop"
  /\ UNCHANGED <<variant, scale, ret, exit_status, printed, files, base_date, feed,
                 hash_order, airports, airlines, us_airports, routes, count, flights,
                 cur, bookings, booking_id, pending, est, earlier>>

\* line 123: the candidate address carries the passenger's index
SimpleEmail(first_name, last_name, id) ==
  lower(first_name) \o "." \o lower(last_name) \o ToString(id) \o "@airline-demo.com"

\* line 125: the candidate of a retry
SimpleRetryEmail(first_name, last_name, id, salt) ==
  lower(first_name) \o "." \o lower(last_name) \o ToString(id) \o "_" \o ToString(salt)
  \o "@airline-demo.com"

\* lines 123-125: the addresses the while loop can end with: the candidate if
\* it is new, else any salted candidate that is new
SimpleEmailOutcomes(first_name, last_name, id, used, salts) ==
  IF ~EmailTaken(SimpleEmail(first_name, last_name, id), used)
  THEN {SimpleEmail(first_name, last_name, id)}
  ELSE {e \in {SimpleRetryEmail(first_name, last_name, id, randint(1, 999, u)) : u \in salts} :
          ~EmailTaken(e, used)}

\* line 129
SimplePhone(u1, u2, u3) ==
  "+1-" \o ToString(randint(100, 999, u1)) \o "-" \o ToString(randint(100, 999, u2))
  \o "-" \o ToString(randint(1000, 9999, u3))

\* one iteration of the loop of generate_passengers (118-131)
SimplePassengerIter(d) ==
  /\ pc = "passengers_loop"
  /\ variant = "simple"
  /\ i < count
  /\ \E uf \in d.first_u, ul \in d.last_u, u1 \in d.digits, u2 \in d.digits, u3 \in d.digits :
       LET first_name == choice(FIRST_NAMES, uf)
           last_name == choice(LAST_NAMES, ul)
       IN \E base_email \in
               SimpleEmailOutcomes(first_name, last_name, i + 1, used_emails, d.salt) :
            /\ used_emails' = used_emails \cup {base_email}
            /\ passengers' = Append(passengers,
                 <<i + 1, first_name, last_name, base_email, SimplePhone(u1, u2, u3)>>)
  /\ i' = i + 1
  /\ UNCHANGED <<variant, pc, scale, ret, exit_status, printed, files, base_date, feed,
                 hash_order, airports, airlines, us_airports, routes, count, flights,
                 cur, bookings, booking_id, pending, est, earlier>>

\* the loop is over: return passengers (323, 133)
PassengersReturn ==
  /\ pc = "passengers_loop"
  /\ i = count
  /\ pc' = "passengers_done"
  /\ UNCHANGED <<variant, scale, ret, exit_status, printed, files, base_date, feed,
                 hash_order, airports, airlines, us_airports, routes, count, i, flights,
                 passengers, used_emails, cur, bookings, booking_id, pending, est, earlier>>

\* the draws tried for a passenger under test
PassengerDraws ==
  [first |-> FakerFirstNames, last |-> FakerLastNames, domain |-> FakerDomains,
   phone |-> FakerPhones, digits |-> {0}, first_u |-> {0, 200}, last_u |-> {0, 9999},
   salt |-> {0, 9999}]

\* a caller calls the passenger generator with a count
CallPassengers ==
  /\ pc = "call"
  /\ \E c \in 0..MaxCount : count' = c
  /\ i' = 0
  /\ passengers' = <<>>
  /\ used_emails' = {}
  /\ pc' = "passengers_loop"
  /\ UNCHANGED <<variant, scale, ret, exit_status, printed, files, base_date, feed,
                 hash_order, airports, airlines, us_airports, routes, flights,
                 cur, bookings, booking_id, pending, est, earlier>>

InitPassengers ==
  /\ variant \in {"simple", "enhanced"}
  /\ pc = "call"
  /\ scale = 0
  /\ NoEnv
  /\ base_date \in Dates
  /\ Fresh
  /\ earlier = NoRun

NextPassengers ==
  \/ CallPassengers
  \/ EnhancedPassengerBegin(PassengerDraws)
  \/ EnhancedEmailRetry(PassengerDraws)
  \/ EnhancedPassengerFinish(PassengerDraws)
  \/ SimplePassengerIter(PassengerDraws)
  \/ PassengersReturn

SpecPassengers == InitPassengers /\ [][NextPassengers]_vars

---------------------------------------------------------------------------
(* Reading a passenger of either variant *)

PassengerIdOf(p) == IF variant = "simple" THEN p[1] ELSE p.passenger_id
EmailOf(p) == IF variant = "simple" THEN p[4] ELSE p.email

---------------------------------------------------------------------------
(* Passenger generator claims *)

\* C4: the passenger generator returns exactly count records, the k-th with
\* identifier k, and no two records share an email
C4_PassengersContiguousUnique ==
  pc = "passengers_done" =>
    /\ Len(passengers) = count
    /\ \A k \in 1..Len(passengers) : PassengerIdOf(passengers[k]) = k
    /\ \A a, b \in 1..Len(passengers) :
         a # b => EmailOf(passengers[a]) # EmailOf(passengers[b])

\* two passengers drew names with the same lowercase form, so the second
\* went through the retry
C4_Witness ==
  /\ variant = "enhanced"
  /\ pc = "passengers_done"
  /\ count >= 2
  /\ passengers[1].last_name = "McDonald"
  /\ passengers[2].last_name = "Mcdonald"
  /\ passengers[1].first_name = passengers[2].first_name
  /\ passengers[2].email = "john.mcdonald1@gmail.com"

\* C13: the address loop ends after finitely many retries: in the enhanced
\* variant the retries made for a passenger never exceed the addresses already
\* used, one per earlier passenger; in the simple variant the first candidate
\* of passenger i + 1 is never taken, whatever names are drawn, so every stored
\* address is the unsalted candidate
C13_RetriesBounded ==
  /\ (variant = "enhanced" /\ pc = "email_loop") =>
       /\ cur.counter - 1 <= Cardinality(used_emails)
       /\ Cardinality(used_emails) = i
  /\ (variant = "simple" /\ pc \in {"passengers_loop", "passengers_done"}) =>
       /\ i < count =>
            \A f \in Range(FIRST_NAMES), l \in Range(LAST_NAMES) :
              ~EmailTaken(SimpleEmail(f, l, i + 1), used_emails)
       /\ \A k \in 1..Len(passengers) :
            passengers[k][4] = SimpleEmail(passengers[k][2], passengers[k][3], passengers[k][1])

\* the second passenger's first candidate was taken and the one retry that
\* the single used address allows produced a new address
C13_Witness ==
  /\ variant = "enhanced"
  /\ pc = "email_loop"
  /\ cur.counter - 1 = 1
  /\ Cardinality(used_emails) = 1
  /\ ~EmailTaken(cur.email, used_emails)

---------------------------------------------------------------------------
(* The booking generators *)

TravelerTypes == <<"frequent", "business", "leisure", "occasional">>
\* weights=[0.02, 0.08, 0.4, 0.5], in hundredths
TravelerWeights == <<2, 8, 40, 50>>

\* lines 340-347
NumBookings(traveler_type, u) ==
  IF traveler_type = "frequent" THEN randint(4, 8, u)
  ELSE IF traveler_type = "business" THEN randint(2, 4, u)
  ELSE IF traveler_type = "leisure" THEN randint(1, 2, u)
  ELSE 1

SeatLetters == <<"A", "B", "C", "D", "E", "F">>

\* lines 359-361 and 193-195
SeatNumber(ur, ul) == ToString(randint(1, 35, ur)) \o choice(SeatLetters, ul)

\* the passengers the booking loop runs over: the list handed in (333), or
\* range(1, passenger_count + 1) (174)
BookingPassengerCount == IF variant = "simple" THEN count ELSE Len(passengers)

\* the passengers taken last to first
BookingPassengerIdLastFirst ==
  IF variant = "simple" THEN BookingPassengerCount - i
  ELSE passengers[BookingPassengerCount - i].passenger_id

\* an identifier counted from zero
BookingPassengerIdFromZero == IF variant = "simple" THEN i ELSE passengers[i + 1].passenger_id - 1

\* the identifier the loop books for: passenger['passenger_id'], or the loop
\* variable passenger_id
BookingPassengerId == IF variant = "simple" THEN i + 1 ELSE passengers[i + 1].passenger_id

\* lines 335-350: the outer loop takes the next passenger and samples the
\* flights to book
EnhancedBookingPassenger(d) ==
  /\ pc = "bookings_loop"
  /\ variant = "enhanced"
  /\ i < BookingPassengerCount
  /\ \E ut \in d.type, un \in d.num :
       LET traveler_type == choices(TravelerTypes, TravelerWeights, ut)
           num_bookings == NumBookings(traveler_type, un)
           k == Min(num_bookings, Len(flights))
       IN \E us \in [1..k -> d.sample] :
            LET s == sample(Len(flights), k, us)
            IN pending' = [j \in 1..k |-> flights[s[j]]]
  /\ pc' = "booking_inner"
  /\ UNCHANGED <<variant, scale, ret, exit_status, printed, files, base_date, feed,
                 hash_order, airports, airlines, us_airports, routes, count, i, flights,
                 passengers, used_emails, cur, bookings, booking_id, est, earlier>>

\* a lead time that may be zero days
BookingDateSameDay(departure_dt, u) == departure_dt - randint(0, 60, u) * 1440

\* lines 354-356: departure - timedelta(days=randint(1, 60))
EnhancedBookingDate(departure_dt, u) == departure_dt - randint(1, 60, u) * 1440

\* lines 352-371: the inner loop books the next sampled flight
EnhancedBookingFlight(d) ==
  /\ pc = "booking_inner"
  /\ variant = "enhanced"
  /\ pending # <<>>
  /\ LET flight == Head(pending)
     IN \E ud \in d.days_before, ur \in d.row, ul \in d.letter :
          bookings' = Append(bookings,
             [booking_id |-> booking_id,
              passenger_id |-> BookingPassengerId,
              flight_id |-> flight.flight_id,
              booking_date |-> EnhancedBookingDate(flight.departure_time, ud),
              seat_number |-> SeatNumber(ur, ul)])
  /\ booking_id' = booking_id + 1
  /\ pending' = Tail(pending)
  /\ UNCHANGED <<variant, pc, scale, ret, exit_status, printed, files, base_date, feed,
                 hash_order, airports, airlines, us_airports, routes, count, i, flights,
                 passengers, used_emails, cur, est, earlier>>

\* line 172: flight_ids = [f[0] for f in flights]
FlightIds(fs) == [k \in 1..Len(fs) |-> fs[k][1]]

\* line 183: next(f for f in flights if f[0] == flight_id)
FlightById(fs, flight_id) ==
  fs[CHOOSE k \in 1..Len(fs) :
       fs[k][1] = flight_id /\ \A j \in 1..(k - 1) : fs[j][1] # flight_id]

\* lines 176-179: the outer loop takes the next passenger identifier and
\* samples the flight identifiers to book
SimpleBookingPassenger(d) ==
  /\ pc = "bookings_loop"
  /\ variant = "simple"
  /\ i < BookingPassengerCount
  /\ \E un \in d.num :
       LET num_bookings == choices(<<1, 2, 3>>, <<5, 3, 2>>, un)
           flight_ids == FlightIds(flights)
           k == Min(num_bookings, Len(flight_ids))
       IN \E us \in [1..k -> d.sample] :
            LET s == sample(Len(flight_ids), k, us)
            IN pending' = [j \in 1..k |-> flight_ids[s[j]]]
  /\ pc' = "booking_inner"
  /\ UNCHANGED <<variant, scale, ret, exit_status, printed, files, base_date, feed,
                 hash_order, airports, airlines, us_airports, routes, count, i, flights,
                 passengers, used_emails, cur, bookings, booking_id, est, earlier>>

\* lines 187-190: departure - timedelta(days=randint(1, 60), hours=randint(0, 23))
SimpleBookingDate(flight_departure, ud, uh) ==
  flight_departure - (randint(1, 60, ud) * 1440 + randint(0, 23, uh) * 60)

\* lines 181-199: the inner loop books the next sampled flight identifier
SimpleBookingFlight(d) ==
  /\ pc = "booking_inner"
  /\ variant = "simple"
  /\ pending # <<>>
  /\ LET flight_id == Head(pending)
         flight == FlightById(flights, flight_id)
         flight_departure == fromisoformat(flight[5])
     IN \E ud \in d.days_before, uh \in d.hours_before, ur \in d.row, ul \in d.letter :
          bookings' = Append(bookings,
             <<booking_id, BookingPassengerId, flight_id,
               isoformat(SimpleBookingDate(flight_departure, ud, uh)),
               SeatNumber(ur, ul)>>)
  /\ booking_id' = booking_id + 1
  /\ pending' = Tail(pending)
  /\ UNCHANGED <<variant, pc, scale, ret, exit_status, printed, files, base_date, feed,
                 hash_order, airports, airlines, us_airports, routes, count, i, flights,
                 passengers, used_emails, cur, est, earlier>>

\* the inner loop is over: the outer loop goes on
BookingPassengerDone ==
  /\ pc = "booking_inner"
  /\ pending = <<>>
  /\ i' = i + 1
  /\ pc' = "bookings_loop"
  /\ UNCHANGED <<variant, scale, ret, exit_status, printed, files, base_date, feed,
                 hash_order, airports, airlines, us_airports, routes, count, flights,
                 passengers, used_emails, cur, bookings, booking_id, pending, est, earlier>>

\* the outer loop is over: return bookings (373, 201)
BookingsReturn ==
  /\ pc = "bookings_loop"
  /\ i = BookingPassengerCount
  /\ pc' = "bookings_done"
  /\ UNCHANGED <<variant, scale, ret, exit_status, printed, files, base_date, feed,
                 hash_order, airports, airlines, us_airports, routes, count, i, flights,
                 passengers, used_emails, cur, bookings, booking_id, pending, est, earlier>>

---------------------------------------------------------------------------
(* Output files *)

\* chunk_size of _write_chunked_sql
chunk_size == 25000

\* the first column of every row, in order
RowIds(data) == [k \in 1..Len(data) |-> IF variant = "simple" THEN data[k][1]
                                       ELSE IF "passenger_id" \in DOMAIN data[k]
                                               /\ "booking_id" \notin DOMAIN data[k]
                                            THEN data[k].passenger_id
                                       ELSE IF "booking_id" \in DOMAIN data[k]
                                            THEN data[k].booking_id
                                       ELSE data[k].flight_id]

\* _write_chunked_sql (401-433): one INSERT statement per chunk of chunk_size
\* rows; the file is the sequence of statements, each the identifiers of its rows
ChunkedSql(data) ==
  [c \in 1..((Len(data) + chunk_size - 1) \div chunk_size) |->
     SubSeq(RowIds(data), (c - 1) * chunk_size + 1, Min(c * chunk_size, Len(data)))]

\* write_csv (203-209): the header row, then the rows
Csv(data) == RowIds(data)

---------------------------------------------------------------------------
(* main of enhanced-data-loader.py *)

\* lines 437-456: the scale check; an invalid scale prints the error and
\* returns 1
MainValidate ==
  /\ pc = "main"
  /\ variant = "enhanced"
  /\ IF scale < MinScale \/ scale > MaxScale
     THEN /\ printed' = printed \cup {"scale_error"}
          /\ ret' = "1"
          /\ pc' = "main_returned"
     ELSE /\ printed' = printed \cup {"banner"}
          /\ ret' = ret
          /\ pc' = "dl_airports"
  /\ UNCHANGED <<variant, scale, exit_status, files, base_date, feed, hash_order,
                 airports, airlines, us_airports, routes, count, i, flights, passengers,
                 used_emails, cur, bookings, booking_id, pending, est, earlier>>

\* lines 465-470: flights_count = args.scale * 1000
MainCallFlights ==
  /\ pc = "downloaded"
  /\ variant = "enhanced"
  /\ count' = scale * FlightsPerScale
  /\ i' = 0
  /\ flights' = <<>>
  /\ pc' = "flights_loop"
  /\ UNCHANGED <<variant, scale, ret, exit_status, printed, files, base_date, feed,
                 hash_order, airports, airlines, us_airports, routes,
                 passengers, used_emails, cur, bookings, booking_id, pending, est, earlier>>

\* lines 471-474: passengers_count = args.scale * 10000
MainCallPassengers ==
  /\ pc = "flights_done"
  /\ variant = "enhanced"
  /\ count' = scale * PassengersPerScale
  /\ i' = 0
  /\ passengers' = <<>>
  /\ used_emails' = {}
  /\ pc' = "passengers_loop"
  /\ UNCHANGED <<variant, scale, ret, exit_status, printed, files, base_date, feed,
                 hash_order, airports, airlines, us_airports, routes, flights,
                 cur, bookings, booking_id, pending, est, earlier>>

\* lines 475-478: generate_realistic_bookings(passengers, flights)
MainCallBookings ==
  /\ pc = "passengers_done"
  /\ variant = "enhanced"
  /\ bookings' = <<>>
  /\ booking_id' = 1
  /\ i' = 0
  /\ pc' = "bookings_loop"
  /\ UNCHANGED <<variant, scale, ret, exit_status, printed, files, base_date, feed,
                 hash_order, airports, airlines, us_airports, routes, count, flights,
                 passengers, used_emails, cur, pending, est, earlier>>

\* lines 481-499: write_sql_files, the closing messages, and main returns None
MainWrite ==
  /\ pc = "bookings_done"
  /\ variant = "enhanced"
  /\ files' = ("load_passengers.sql" :> ChunkedSql(passengers))
              @@ ("load_flights.sql" :> ChunkedSql(flights))
              @@ ("load_bookings.sql" :> ChunkedSql(bookings))
              @@ files
  /\ printed' = printed \cup {"complete"}
  /\ ret' = "None"
  /\ pc' = "main_returned"
  /\ UNCHANGED <<variant, scale, exit_status, base_date, feed, hash_order, airports,
                 airlines, us_airports, routes, count, i, flights, passengers,
                 used_emails, cur, bookings, booking_id, pending, est, earlier>>

\* a handler that exits with status 0
MainExceptExitZero ==
  /\ pc = "raised"
  /\ printed' = printed \cup {"error"}
  /\ exit_status' = 0
  /\ pc' = "exited"
  /\ UNCHANGED <<variant, scale, ret, files, base_date, feed, hash_order, airports,
                 airlines, us_airports, routes, count, i, flights, passengers,
                 used_emails, cur, bookings, booking_id, pending, est, earlier>>

\* lines 501-505: an exception raised inside the try block is printed and the
\* process exits with status 1
MainExcept ==
  /\ pc = "raised"
  /\ printed' = printed \cup {"error"}
  /\ exit_status' = 1
  /\ pc' = "exited"
  /\ UNCHANGED <<variant, scale, ret, files, base_date, feed, hash_order, airports,
                 airlines, us_airports, routes, count, i, flights, passengers,
                 used_emails, cur, bookings, booking_id, pending, est, earlier>>

\* lines 507-508 (and 248-249): the module calls main() and drops its return
\* value, so the interpreter ends with status 0
ModuleGuard ==
  /\ pc = "main_returned"
  /\ exit_status' = 0
  /\ pc' = "exited"
  /\ UNCHANGED <<variant, scale, ret, printed, files, base_date, feed, hash_order,
                 airports, airlines, us_airports, routes, count, i, flights, passengers,
                 used_emails, cur, bookings, booking_id, pending, est, earlier>>

---------------------------------------------------------------------------
(* main of data-generator.py *)

\* lines 216-218: generate_passengers(10000)
SimpleMainPassengers ==
  /\ pc = "main"
  /\ variant = "simple"
  /\ count' = SimplePassengerCount
  /\ i' = 0
  /\ passengers' = <<>>
  /\ used_emails' = {}
  /\ pc' = "passengers_loop"
  /\ UNCHANGED <<variant, scale, ret, exit_status, printed, files, base_date, feed,
                 hash_order, airports, airlines, us_airports, routes, flights,
                 cur, bookings, booking_id, pending, est, earlier>>

\* lines 219-225: write passengers.csv, then generate_flights(750)
SimpleMainFlights ==
  /\ pc = "passengers_done"
  /\ variant = "simple"
  /\ files' = ("passengers.csv" :> Csv(passengers)) @@ files
  /\ count' = SimpleFlightCount
  /\ i' = 0
  /\ flights' = <<>>
  /\ pc' = "flights_loop"
  /\ UNCHANGED <<variant, scale, ret, exit_status, printed, base_date, feed,
                 hash_order, airports, airlines, us_airports, routes,
                 passengers, used_emails, cur, bookings, booking_id, pending, est, earlier>>

\* lines 226-232: write flights.csv, then generate_bookings(10000, flights)
SimpleMainBookings ==
  /\ pc = "flights_done"
  /\ variant = "simple"
  /\ files' = ("flights.csv" :> Csv(flights)) @@ files
  /\ count' = SimpleBookingPassengers
  /\ i' = 0
  /\ bookings' = <<>>
  /\ booking_id' = 1
  /\ pc' = "bookings_loop"
  /\ UNCHANGED <<variant, scale, ret, exit_status, printed, base_date, feed,
                 hash_order, airports, airlines, us_airports, routes, flights,
                 passengers, used_emails, cur, pending, est, earlier>>

\* lines 233-246: write bookings.csv, the closing messages, and main returns
SimpleMainFinish ==
  /\ pc = "bookings_done"
  /\ variant = "simple"
  /\ files' = ("bookings.csv" :> Csv(bookings)) @@ files
  /\ printed' = printed \cup {"complete"}
  /\ ret' = "None"
  /\ pc' = "main_returned"
  /\ UNCHANGED <<variant, scale, exit_status, base_date, feed, hash_order, airports,
                 airlines, us_airports, routes, count, i, flights, passengers,
                 used_emails, cur, bookings, booking_id, pending, est, earlier>>

---------------------------------------------------------------------------
(* A run of either program *)

\* the program starts: python enhanced-data-loader.py --scale S, or
\* python data-generator.py
Init ==
  /\ variant \in {"simple", "enhanced"}
  /\ pc = "main"
  /\ IF variant = "enhanced" THEN scale \in ScaleArgs /\ EnhancedEnv
     ELSE scale = 0 /\ NoEnv
  /\ base_date \in Dates
  /\ Fresh
  /\ earlier = NoRun

\* the steps of a run, the generators drawing from fd, pd and bd
Run(fd, pd, bd) ==
  \/ MainValidate
  \/ DownloadAirports
  \/ DownloadAirlines
  \/ DownloadRoutes
  \/ LoadFallback
  \/ MainCallFlights
  \/ EnhancedFlightIter(fd)
  \/ EnhancedFlightRaise
  \/ FlightsReturn
  \/ MainCallPassengers
  \/ EnhancedPassengerBegin(pd)
  \/ EnhancedEmailRetry(pd)
  \/ EnhancedPassengerFinish(pd)
  \/ PassengersReturn
  \/ MainCallBookings
  \/ EnhancedBookingPassenger(bd)
  \/ EnhancedBookingFlight(bd)
  \/ BookingPassengerDone
  \/ BookingsReturn
  \/ MainWrite
  \/ MainExcept
  \/ ModuleGuard
  \/ SimpleMainPassengers
  \/ SimplePassengerIter(pd)
  \/ SimpleMainFlights
  \/ SimpleFlightIter(fd)
  \/ SimpleMainBookings
  \/ SimpleBookingPassenger(bd)
  \/ SimpleBookingFlight(bd)
  \/ SimpleMainFinish

\* draws that vary what is accepted, sampled and booked
RunFlightDraws ==
  [route |-> {0}, origin |-> {0}, dest |-> {0}, accept |-> {0, 9999}, code |-> {0},
   num |-> {0}, days |-> {0}, hour |-> {5000}, minute |-> {0}, est |-> {0},
   jitter |-> {0}]
RunPassengerDraws ==
  [first |-> {"John"}, last |-> {"Smith"}, domain |-> {"gmail.com"},
   phone |-> {"555-0100"}, digits |-> {0}, first_u |-> {0}, last_u |-> {0},
   salt |-> {0}]
RunBookingDraws ==
  [type |-> {0, 9999}, num |-> {0, 9999}, days_before |-> {0},
   hours_before |-> {0}, sample |-> {0, 5000, 9999}, row |-> {0}, letter |-> {0}]

Next == Run(RunFlightDraws, RunPassengerDraws, RunBookingDraws)

Spec == Init /\ [][Next]_vars

\* draws that vary the times: departures and lead times at their extremes
TimingFlightDraws ==
  [route |-> {0}, origin |-> {0}, dest |-> {0}, accept |-> {0}, code |-> {0},
   num |-> {0}, days |-> {0, 9999}, hour |-> {0}, minute |-> {9999},
   est |-> {0}, jitter |-> {0}]
TimingBookingDraws ==
  [type |-> {9999}, num |-> {0}, days_before |-> {0, 9999},
   hours_before |-> {0, 9999}, sample |-> {0}, row |-> {0}, letter |-> {0}]

NextTiming == Run(TimingFlightDraws, RunPassengerDraws, TimingBookingDraws)

SpecTiming == Init /\ [][NextTiming]_vars

---------------------------------------------------------------------------
(* Reading a booking of either variant *)

BookingPassengerOf(b) == IF variant = "simple" THEN b[2] ELSE b.passenger_id
BookingFlightOf(b) == IF variant = "simple" THEN b[3] ELSE b.flight_id
BookingDateOf(b) == IF variant = "simple" THEN fromisoformat(b[4]) ELSE b.booking_date

PassengerIds == {PassengerIdOf(passengers[k]) : k \in 1..Len(passengers)}
FlightIdSet == {FlightIdOf(flights[k]) : k \in 1..Len(flights)}

\* the flights a booking's flight identifier names
FlightsOfBooking(b) ==
  {flights[k] : k \in {j \in 1..Len(flights) : FlightIdOf(flights[j]) = BookingFlightOf(b)}}

\* the scale is in the documented range
ValidScale == scale >= MinScale /\ scale <= MaxScale

\* the catalog came from the built-in table after a failed fetch or parse
FellBack == "fallback" \in printed

---------------------------------------------------------------------------
(* Claims about a run *)

\* C5: every booking names a passenger generated in the run and a flight of
\* the flight sequence handed to the booking generator
C5_ReferentialIntegrity ==
  \A k \in 1..Len(bookings) :
    /\ BookingPassengerOf(bookings[k]) \in PassengerIds
    /\ BookingFlightOf(bookings[k]) \in FlightIdSet

\* an enhanced run whose only flight carries identifier 2 (its first candidate
\* was skipped) and whose bookings name it
C5_Witness ==
  /\ variant = "enhanced"
  /\ pc = "exited"
  /\ Len(flights) < scale * FlightsPerScale
  /\ FlightIdSet = {2}
  /\ Len(bookings) = Len(passengers)
  /\ Len(bookings) >= 2

\* C6: every booking is dated strictly before the departure of its flight, by
\* at least 1 day and at most 60 days (enhanced) or 60 days 23 hours (simple)
C6_BookingBeforeDeparture ==
  \A k \in 1..Len(bookings) :
    /\ FlightsOfBooking(bookings[k]) # {}
    /\ \A f \in FlightsOfBooking(bookings[k]) :
         LET lead == DepartureOf(f) - BookingDateOf(bookings[k])
         IN /\ BookingDateOf(bookings[k]) < DepartureOf(f)
            /\ lead >= 1440
            /\ lead <= IF variant = "simple" THEN 60 * 1440 + 23 * 60 ELSE 60 * 1440

\* a simple run with a booking made 60 days 23 hours before a departure at
\* 06:00, so the booking falls on an earlier day at 07:00
C6_Witness ==
  /\ variant = "simple"
  /\ pc = "exited"
  /\ \E k \in 1..Len(bookings) : \E f \in FlightsOfBooking(bookings[k]) :
       /\ fromisoformat(f[5]) - fromisoformat(bookings[k][4]) = 60 * 1440 + 23 * 60
       /\ f[5][2] = 6
       /\ bookings[k][4][2] = 7

\* C7: an enhanced run with a scale below 1 or above 1000 reports the error,
\* ends with a non-zero exit status, and loads, generates and writes nothing
C7_InvalidScaleExitsNonZero ==
  (variant = "enhanced" /\ ~ValidScale /\ pc = "exited") =>
    /\ "scale_error" \in printed
    /\ exit_status # 0
    /\ DOMAIN airports = {} /\ routes = <<>>
    /\ flights = <<>> /\ passengers = <<>> /\ bookings = <<>>
    /\ DOMAIN files = {}

\* all ordered pairs of different built-in locations
FallbackPairs ==
  {<<a, b>> : a \in Range(FallbackCodes), b \in Range(FallbackCodes)} \ 
  {<<a, a>> : a \in Range(FallbackCodes)}

\* C8: after a failed fetch or parse the download returns with the 15 built-in
\* locations (at least 10) and exactly one route per ordered pair of different
\* built-in locations, and flight generation on it raises nothing
C8_FallbackCatalog ==
  /\ pc = "dl_except" => ENABLED LoadFallback
  /\ FellBack =>
       /\ DOMAIN airports = Range(FallbackCodes)
       /\ Cardinality(DOMAIN airports) >= 10
       /\ us_airports = Range(FallbackCodes)
       /\ routes # <<>>
       /\ Len(routes) = Cardinality(FallbackPairs)
       /\ {<<routes[k].origin, routes[k].destination>> : k \in 1..Len(routes)} = FallbackPairs
       /\ pc # "raised"
       /\ (pc = "exited" => exit_status = 0 /\ Len(flights) <= scale * FlightsPerScale)

\* the routes feed failed after airports and airlines were parsed, and the run
\* went on to generate a flight from the fallback catalog and ended
C8_Witness ==
  /\ FellBack
  /\ DOMAIN airlines # {}
  /\ pc = "exited"
  /\ Len(flights) >= 1
  /\ "complete" \in printed

\* C9: when the load succeeds with zero usable routes, flight generation
\* raises, main reports the error and exits non-zero; no flight list is
\* returned and no file is written
C9_NoRoutesIsFatal ==
  (variant = "enhanced" /\ ValidScale /\ ~FellBack /\ routes = <<>>
     /\ pc \notin {"main", "dl_airports", "dl_airlines", "dl_routes", "dl_except"}) =>
    /\ pc \in {"downloaded", "flights_loop", "raised", "exited"}
    /\ i = 0 /\ flights = <<>>
    /\ pc = "flights_loop" => count >= 1 /\ ENABLED EnhancedFlightRaise
    /\ pc = "exited" => exit_status # 0 /\ "error" \in printed
    /\ DOMAIN files = {}

\* the run with no usable route ended with status 1
C9_Witness ==
  /\ variant = "enhanced"
  /\ ~FellBack
  /\ routes = <<>>
  /\ DOMAIN airports # {}
  /\ pc = "exited"
  /\ exit_status = 1

---------------------------------------------------------------------------
(* The duration estimators, called in both directions *)

\* the location codes tried: both variants' airports and one outside them
EstimatorCodes == Range(AIRPORTS) \cup Range(FallbackCodes) \cup {"XNA"}

\* the estimator of the variant
Estimate(a, b, u) ==
  IF variant = "simple" THEN calculate_flight_duration(a, b, u)
  ELSE estimate_flight_duration(a, b, u)

\* the lookup table of the variant
KnownPairs == IF variant = "simple" THEN DOMAIN distance_factors ELSE DOMAIN duration_map

\* a caller estimates a pair in both directions, each call with its own draw
EstimateBothWays ==
  /\ pc = "call"
  /\ \E a \in EstimatorCodes, b \in EstimatorCodes, u1 \in {0, 5000, 9999},
        u2 \in {0, 5000, 9999} :
       est' = <<[origin |-> a, destination |-> b,
                 forward |-> Estimate(a, b, u1), backward |-> Estimate(b, a, u2)]>>
  /\ pc' = "estimated"
  /\ UNCHANGED <<variant, scale, ret, exit_status, printed, files, base_date, feed,
                 hash_order, airports, airlines, us_airports, routes, count, i, flights,
                 passengers, used_emails, cur, bookings, booking_id, pending, earlier>>

InitDuration ==
  /\ variant \in {"simple", "enhanced"}
  /\ pc = "call"
  /\ scale = 0
  /\ NoEnv
  /\ base_date \in Dates
  /\ Fresh
  /\ earlier = NoRun

NextDuration == EstimateBothWays

SpecDuration == InitDuration /\ [][NextDuration]_vars

\* C10: on a pair the lookup table lists in either direction, the estimate
\* of (a, b) equals the estimate of (b, a), whatever the draws
C10_EstimateSymmetric ==
  \A k \in 1..Len(est) :
    (<<est[k].origin, est[k].destination>> \in KnownPairs
       \/ <<est[k].destination, est[k].origin>> \in KnownPairs)
      => est[k].forward = est[k].backward

\* a pair the enhanced table lists only as (JFK, LAX), asked as (LAX, JFK)
C10_Witness ==
  /\ variant = "enhanced"
  /\ est # <<>>
  /\ est[1].origin = "LAX" /\ est[1].destination = "JFK"
  /\ <<"LAX", "JFK">> \notin KnownPairs
  /\ est[1].forward = 360 /\ est[1].backward = 360

---------------------------------------------------------------------------
(* The same program run twice *)

\* date.today() of a later run: the same day or the next
RerunDates == {20000, 20001}

\* the carriers handed out by the successive random.choice(airlines) calls of
\* the fallback loop (or read from the feed), in the order they were drawn
CarriersDrawn == [k \in 1..Len(routes) |-> routes[k].airline]

\* the process has ended and the program is started again with the same
\* arguments and the same feeds; the day and the interpreter's string hashing
\* are those of the new process
RunAgain ==
  /\ pc = "exited"
  /\ ~earlier.done
  /\ earlier' = [done |-> TRUE, passengers |-> passengers, flights |-> flights,
                 bookings |-> bookings, files |-> files, printed |-> printed,
                 airlines |-> airlines, carriers |-> CarriersDrawn]
  /\ pc' = "main"
  /\ base_date' \in RerunDates
  /\ hash_order' \in IF variant = "enhanced" THEN HashOrders ELSE {"insertion"}
  /\ ret' = ""
  /\ exit_status' = -1
  /\ printed' = {}
  /\ files' = EmptyDict
  /\ airports' = EmptyDict
  /\ airlines' = EmptyDict
  /\ us_airports' = {}
  /\ routes' = <<>>
  /\ count' = 0
  /\ i' = 0
  /\ flights' = <<>>
  /\ passengers' = <<>>
  /\ used_emails' = {}
  /\ cur' = NoPassenger
  /\ bookings' = <<>>
  /\ booking_id' = 1
  /\ pending' = <<>>
  /\ UNCHANGED <<variant, scale, feed, est>>

\* the values the random module hands out are those of one seed: the same in
\* every run, draw for draw; the fake-data provider keeps its own generator
RerunFlightDraws == [RunFlightDraws EXCEPT !.accept = {0}]
RerunPassengerDraws == [RunPassengerDraws EXCEPT !.first = FakerFirstNames]
RerunBookingDraws == [RunBookingDraws EXCEPT !.type = {9999}, !.num = {0}, !.sample = {0}]

NextRerun ==
  \/ Run(RerunFlightDraws, RerunPassengerDraws, RerunBookingDraws)
  \/ RunAgain

SpecRerun == Init /\ [][NextRerun]_vars

\* the second run had the scale, the feeds and the feed failures of the first
SameParameters == earlier.printed = printed /\ earlier.airlines = airlines

\* the second run's fallback loop drew the carriers the first one drew
SameSeed == earlier.carriers = CarriersDrawn

\* C11: two runs with the same seed and the same parameters end with identical
\* passengers, flights and bookings and identical files, whatever the day, the
\* set iteration order and the fake-data provider's state
C11_Deterministic ==
  (pc = "exited" /\ earlier.done /\ SameParameters /\ SameSeed) =>
    /\ passengers = earlier.passengers
    /\ flights = earlier.flights
    /\ bookings = earlier.bookings
    /\ files = earlier.files

---------------------------------------------------------------------------
(* Claims about the booking generators *)

\* the passenger identifiers the booking generator was handed
PassengersHandedIn ==
  IF variant = "simple" THEN 1..BookingPassengerCount ELSE PassengerIds

\* the bookings made for passenger p, in output order
BookingsOf(p) ==
  SelectSeq(bookings, LAMBDA b : BookingPassengerOf(b) = p)

\* C12: when the booking generator returns, every passenger it was handed is
\* named by at least one booking, whatever flight list it was handed
C12_EveryPassengerBooked ==
  pc = "bookings_done" => \A p \in PassengersHandedIn : BookingsOf(p) # <<>>

\* the counts num_bookings can take under the draws of a run: by traveler type
\* (340-347), or 1, 2 or 3 (176)
DrawnCounts ==
  IF variant = "simple"
  THEN {choices(<<1, 2, 3>>, <<5, 3, 2>>, un) : un \in RunBookingDraws.num}
  ELSE {NumBookings(choices(TravelerTypes, TravelerWeights, ut), un) :
          ut \in RunBookingDraws.type, un \in RunBookingDraws.num}

\* the booking generator is running or has returned
InBookings == pc \in {"bookings_loop", "booking_inner", "bookings_done"}

\* the identifier of the k-th passenger the booking loop runs over
HandedIn(k) == IF variant = "simple" THEN k ELSE passengers[k].passenger_id

\* C14: every passenger the booking loop has finished has exactly min(k, F)
\* bookings, k a count the generator can draw and F the number of flights
\* handed in, and no two of them name the same flight
C14_BookingsPerPassenger ==
  InBookings =>
    \A k \in 1..i :
      LET bs == BookingsOf(HandedIn(k))
      IN /\ Len(bs) \in {Min(n, Len(flights)) : n \in DrawnCounts}
         /\ \A a, b \in 1..Len(bs) :
              a # b => BookingFlightOf(bs[a]) # BookingFlightOf(bs[b])

\* an enhanced run with two flights in which one passenger drew more bookings
\* than there are flights and got both, and another drew one
C14_Witness ==
  /\ variant = "enhanced"
  /\ pc = "bookings_done"
  /\ Len(flights) = 2
  /\ \E p, q \in PassengersHandedIn :
       /\ Len(BookingsOf(p)) = 2
       /\ Len(BookingsOf(q)) = 1

BookingIdOf(b) == IF variant = "simple" THEN b[1] ELSE b.booking_id

\* C15: the k-th booking of the output carries identifier k, the next
\* identifier to hand out is one more than the bookings made, and passenger
\* identifiers never decrease along the output
C15_BookingIdsInOrder ==
  /\ InBookings => booking_id = Len(bookings) + 1
  /\ \A k \in 1..Len(bookings) :
       /\ BookingIdOf(bookings[k]) = k
       /\ k > 1 => BookingPassengerOf(bookings[k - 1]) <= BookingPassengerOf(bookings[k])

\* a finished run in which the first passenger has two bookings and the second
\* passenger's booking follows them with identifier 3
C15_Witness ==
  /\ pc = "exited"
  /\ Len(bookings) >= 3
  /\ BookingPassengerOf(bookings[1]) = 1
  /\ BookingPassengerOf(bookings[2]) = 1
  /\ BookingPassengerOf(bookings[3]) = 2
  /\ BookingIdOf(bookings[3]) = 3

---------------------------------------------------------------------------
(* _write_chunked_sql, chunk by chunk *)

\* the lengths of the lists handed to the writer: around every multiple of
\* chunk_size up to MaxChunks chunks
RowCounts ==
  {n \in {c * chunk_size + e - Spread : c \in 0..MaxChunks, e \in 0..(2 * Spread)} :
     n >= 0 /\ n <= MaxChunks * chunk_size}

\* a slice that loses its last row
SliceShort(data, lo, hi) == SubSeq(data, lo + 1, Min(hi, Len(data)) - 1)

\* data[lo:hi]
Slice(data, lo, hi) == SubSeq(data, lo + 1, Min(hi, Len(data)))

\* a list of n rows, the k-th with identifier k
Rows(n) == SubSeq([k \in 1..n |-> [flight_id |-> k]], 1, n)

\* _write_chunked_sql('load_flights.sql', data, ...) is called with a list of
\* rows; lines 405-407 open the file and write its header
CallWriteChunked ==
  /\ pc = "call_write"
  /\ \E n \in RowCounts : flights' = Rows(n)
  /\ files' = ("load_flights.sql" :> <<>>)
  /\ i' = 0
  /\ pc' = "chunk_loop"
  /\ UNCHANGED <<variant, scale, ret, exit_status, printed, base_date, feed, hash_order,
                 airports, airlines, us_airports, routes, count, passengers,
                 used_emails, cur, bookings, booking_id, pending, est, earlier>>

\* lines 410-433: one turn of for i in range(0, len(data), chunk_size): the
\* chunk's INSERT statement is written
WriteChunk ==
  /\ pc = "chunk_loop"
  /\ i < Len(flights)
  /\ files' = [files EXCEPT !["load_flights.sql"] =
                 Append(@, RowIds(Slice(flights, i, i + chunk_size)))]
  /\ i' = i + chunk_size
  /\ UNCHANGED <<variant, pc, scale, ret, exit_status, printed, base_date, feed,
                 hash_order, airports, airlines, us_airports, routes, count, flights,
                 passengers, used_emails, cur, bookings, booking_id, pending, est,
                 earlier>>

\* the range is exhausted: the file is closed and the writer returns
WriteChunkedReturn ==
  /\ pc = "chunk_loop"
  /\ i >= Len(flights)
  /\ pc' = "written"
  /\ UNCHANGED <<variant, scale, ret, exit_status, printed, files, base_date, feed,
                 hash_order, airports, airlines, us_airports, routes, count, i, flights,
                 passengers, used_emails, cur, bookings, booking_id, pending, est,
                 earlier>>

InitChunks ==
  /\ variant = "enhanced"
  /\ pc = "call_write"
  /\ scale = MinScale
  /\ NoEnv
  /\ base_date \in Dates
  /\ Fresh
  /\ earlier = NoRun

NextChunks ==
  \/ CallWriteChunked
  \/ WriteChunk
  \/ WriteChunkedReturn

SpecChunks == InitChunks /\ [][NextChunks]_vars

\* the INSERT statements written so far
Statements == files["load_flights.sql"]

\* the rows of a sequence of statements, in file order
RECURSIVE Concat(_)
Concat(stmts) == IF stmts = <<>> THEN <<>> ELSE Head(stmts) \o Concat(Tail(stmts))

\* ceil(n / m)
CeilDiv(n, m) == IF n % m = 0 THEN n \div m ELSE (n \div m) + 1

\* C16: the writer emits ceil(n / 25000) INSERT statements for n rows, none
\* for no rows, each with at least 1 and at most 25000 rows, and the rows of
\* the statements in file order are the input rows in order, each once
C16_ChunkedInsert ==
  pc = "written" =>
    /\ Len(Statements) = CeilDiv(Len(flights), 25000)
    /\ Len(flights) = 0 => Statements = <<>>
    /\ \A c \in 1..Len(Statements) :
         Len(Statements[c]) >= 1 /\ Len(Statements[c]) <= 25000
    /\ Concat(Statements) = [k \in 1..Len(flights) |-> flights[k].flight_id]
    /\ Statements = ChunkedSql(flights)

\* one row more than a full chunk: a second statement holding the last row
C16_Witness ==
  /\ pc = "written"
  /\ Len(flights) = 25001
  /\ Len(Statements) = 2
  /\ Statements[2] = <<25001>>

---------------------------------------------------------------------------
(* The catalog after the download *)

\* download_openflights_data has returned to main
DownloadReturned ==
  variant = "enhanced" /\ pc \notin {"main", "dl_airports", "dl_airlines", "dl_routes",
                                     "dl_except"}

\* C17: once the download has returned, from the feeds or from the fallback
\* table, also after a failure that came when some feeds were parsed, every
\* route joins two different airports that are keys of self.airports and
\* members of self.us_airports, with a carrier of the allow-list; and every
\* generated flight joins two different airports
C17_RoutesWellFormed ==
  DownloadReturned =>
    /\ LET endpoints == {routes[k].origin : k \in 1..Len(routes)}
                         \cup {routes[k].destination : k \in 1..Len(routes)}
           carriers == {routes[k].airline : k \in 1..Len(routes)}
       IN /\ \A k \in 1..Len(routes) : routes[k].origin # routes[k].destination
          /\ endpoints \subseteq DOMAIN airports
          /\ endpoints \subseteq us_airports
          /\ carriers \subseteq MajorAirlines
    /\ \A k \in 1..Len(flights) : OriginOf(flights[k]) # DestinationOf(flights[k])

\* a run on the feeds themselves: the five routes the filter keeps out of nine
\* lines, one of them a self pair, and a flight generated from them
C17_Witness ==
  /\ DownloadReturned
  /\ ~FellBack
  /\ Len(routes) = 5
  /\ Len(FeedOf(feed).routes) = 9
  /\ pc = "exited"
  /\ Len(flights) >= 1

---------------------------------------------------------------------------
(* Identifiers of the enhanced flight generator *)

\* the state part: never more flights than iterations made or than count,
\* identifiers within 1..count, none beyond the iterations made, strictly
\* increasing along the list
FlightIdsIncreasing ==
  (variant = "enhanced" /\ pc \in {"flights_loop", "flights_done"}) =>
    /\ Len(flights) <= i
    /\ i <= count
    /\ \A k \in 1..Len(flights) :
         /\ flights[k].flight_id >= 1
         /\ flights[k].flight_id <= i
         /\ \A j \in 1..Len(flights) : j < k => flights[j].flight_id < flights[k].flight_id

\* the step part: a flight appended in iteration i carries identifier i + 1
AcceptedGetsNextIndex ==
  (variant = "enhanced" /\ Len(flights') = Len(flights) + 1) =>
    flights'[Len(flights')].flight_id = i + 1

\* C18: generate_realistic_flights returns at most count flights, their
\* identifiers pairwise distinct, strictly increasing in output order and
\* within 1..count, a flight accepted in iteration i carrying identifier i + 1
C18_EnhancedFlightIds == []FlightIdsIncreasing /\ [][AcceptedGetsNextIndex]_vars

\* the first candidate was rejected and the second accepted: one flight, with
\* identifier 2
C18_Witness ==
  /\ variant = "enhanced"
  /\ pc = "flights_done"
  /\ count = 2
  /\ Len(flights) = 1
  /\ flights[1].flight_id = 2

====
